---- MODULE Spec2Model ----
(***************************************************************************)
(* Conference-registration backend: the /api/register routes.              *)
(*                                                                         *)
(* The repository holds three revisions of the registration router and two *)
(* revisions of the Registration schema.  A deployment runs one router     *)
(* revision; `rev` is drawn in Init and never changes:                     *)
(*   "memory" : src/unnamed/part_000  (multer memoryStorage, one GridFS    *)
(*              bucket "uploads", files written by the handler)            *)
(*   "gridfs" : src/routes/register.js (multer-gridfs-storage middleware,  *)
(*              files written before the handler runs)                     *)
(*   "split"  : src/unnamed/part_001  (uploadBoth middleware, buckets      *)
(*              "receipts" and "abstracts")                                *)
(* The schema revision a router runs against is the one whose fields it    *)
(* writes: part_000 and part_001 write the four file fields that           *)
(* src/unnamed/part_004 requires; routes/register.js never writes the      *)
(* required file names and can only save under src/unnamed/part_003.       *)
(*                                                                         *)
(* Every HTTP request is one slot of `req`.  A step of the model is the    *)
(* code a handler runs between two awaits (Node runs it atomically), or    *)
(* one operation of the database, the blob store or the mail transport.    *)
(***************************************************************************)
EXTENDS Integers, FiniteSets, Sequences, TLC

\* Number of HTTP requests a behaviour issues (request slots); they may all
\* be in progress at the same time.
MaxReqs == 2

Reqs == 1 .. MaxReqs

Revisions == {"memory", "gridfs", "split"}

\* The two multipart file fields.
Slots == {"receipt", "abstractFile"}

\* JavaScript undefined / null, for ids.
Undefined == 0

\* ObjectIds are unique; request c draws the k-th id it generates as
\* 10*(c+1)+k.  c = 0 names the ids of a Registration stored before the
\* server started.
ObjectId(c, k) == 10 * (c + 1) + k
RegIdOf(c) == ObjectId(c, 0)
BlobIdOf(c, s) == IF s = "receipt" THEN ObjectId(c, 1) ELSE ObjectId(c, 2)

\* file.buffer: the bytes of the file that request c carries in slot s.
\* NoBytes: no body was streamed.
BytesOf(c, s) == <<c, s>>
NoBytes == <<>>

\* body("mobile").matches(/^[0-9]{10}$/)
MobileDigits == 10

\* Form inputs.
RawEmails == {"a@x.com", "A@X.com", "b@x.com"}
MobileLengths == {5, 10}
\* The file parts a request carries.
FileSets == SUBSET Slots

\* express-validator normalizeEmail(): lower-cases the address.
normalizeEmail(e) == IF e = "A@X.com" THEN "a@x.com" ELSE e

\* validationResult(req): the fields that fail their validator.
validationErrors(mobileLen) == IF mobileLen = MobileDigits THEN {} ELSE {"mobile"}

\* The schema revision the router revision runs against.
SchemaHasFiles(r) == r \in {"memory", "split"}

\* The bucket a file slot is stored in.
BucketOf(r, s) ==
  IF r = "split" THEN (IF s = "receipt" THEN "receipts" ELSE "abstracts")
  ELSE "uploads"

VARIABLES
  rev,            \* router revision deployed
  dbOpen,         \* mongoose.connection has emitted "open"
  gfsBucket,      \* part_000 line 15 / part_001 gfsBuckets: buckets initialised
  registrations,  \* the Registration collection (Record Store)
  blobs,          \* GridFS files (Blob Store): records [id, bucket, data]
  req,            \* the HTTP requests
  call            \* one invocation of a helper or of the List handler, for
                  \* the specifications that study it on its own

vars == <<rev, dbOpen, gfsBucket, registrations, blobs, req, call>>

\* No invocation is singled out (the router specification).
NoCall == [fn |-> "none"]

NoUploads == [s \in Slots |-> "none"]
NoFiles == [s \in Slots |-> Undefined]

IdleReq ==
  [op |-> "idle", pc |-> "idle", status |-> 0, err |-> "",
   email |-> "", mobile |-> 0, files |-> {},
   up |-> NoUploads, fid |-> NoFiles, regId |-> Undefined,
   mail |-> "none", target |-> Undefined, body |-> NoBytes]

\* A request whose handler and background work have all ended.
Finished(c) ==
  /\ req[c].pc = "done"
  /\ \A s \in Slots : req[c].up[s] # "pending"

Started(c) == req[c].op # "idle"

\* Requests arrive in slot order.
CanStart(c) ==
  /\ ~Started(c)
  /\ \A k \in 1 .. (c - 1) : Started(k)

BlobIds == {b.id : b \in blobs}
EmailExists(e) == \E r \in registrations : r.email = e

\* res.status(code).json(...): the handler ends and its req.body and
\* req.files go out of scope; the slot keeps the response and the ids.
Answer(r, code, e) ==
  [r EXCEPT !.status = code, !.err = e, !.pc = "done",
            !.email = "", !.mobile = 0, !.files = {}]

\* The database outlives the server: at start it is empty, or it holds a
\* Registration that an earlier run of the same revision stored (part_000:
\* with its two files in "uploads"; routes/register.js: without file
\* fields; part_001 cannot store one, see CreateFails).
SeedRegistration(r) ==
  [_id |-> RegIdOf(0), email |-> "a@x.com",
   fileId |-> IF SchemaHasFiles(r) THEN [s \in Slots |-> BlobIdOf(0, s)] ELSE NoFiles]

SeedBlobs(r) ==
  IF SchemaHasFiles(r)
  THEN {[id |-> BlobIdOf(0, s), bucket |-> BucketOf(r, s), data |-> BytesOf(0, s)] : s \in Slots}
  ELSE {}

Init ==
  /\ rev \in Revisions
  /\ dbOpen = FALSE
  /\ gfsBucket = FALSE
  /\ \E seeded \in BOOLEAN :
       /\ registrations = IF seeded /\ rev # "split" THEN {SeedRegistration(rev)} ELSE {}
       /\ blobs = IF seeded /\ rev # "split" THEN SeedBlobs(rev) ELSE {}
  /\ req = [c \in Reqs |-> IdleReq]
  /\ call = NoCall

\* mongoose.connection.once("open", ...): the buckets are created.
ConnectionOpen ==
  /\ ~dbOpen
  /\ dbOpen' = TRUE
  /\ gfsBucket' = (rev \in {"memory", "split"})
  /\ UNCHANGED <<call, rev, registrations, blobs, req>>

(***************************************************************************)
(* POST /api/register  (Submit)                                            *)
(***************************************************************************)

\* The request as the route's middleware chain first sees it; the validate
\* chain's normalizeEmail() sanitizer rewrites req.body.email.
NewSubmit(e, m, f) ==
  [IdleReq EXCEPT !.op = "submit", !.email = normalizeEmail(e), !.mobile = m, !.files = f]

\* Entry of the async handler of part_000 / part_001: validationResult first.
HandlerEntry(r) ==
  IF validationErrors(r.mobile) # {}
  THEN Answer(r, 400, "ValidationFailed")
  ELSE [r EXCEPT !.pc = "findOne"]

\* A request arrives.  memory: multer memoryStorage parses the files into
\* buffers and the handler starts.  gridfs: the multer-gridfs-storage
\* middleware starts storing the first file part.  split: uploadBoth starts.
StartSubmit(c, e, m, f) ==
  /\ CanStart(c)
  /\ req' = [req EXCEPT ![c] =
       CASE rev = "memory" -> HandlerEntry(NewSubmit(e, m, f))
         [] rev = "gridfs" ->
              IF f = {}
              THEN [NewSubmit(e, m, f) EXCEPT !.pc = "findOne"]
              ELSE [NewSubmit(e, m, f) EXCEPT !.pc = "multer",
                      !.up[IF "receipt" \in f THEN "receipt" ELSE "abstractFile"] = "pending"]
         [] rev = "split" ->
              [NewSubmit(e, m, f) EXCEPT !.pc = "uploadBoth"]]
  /\ UNCHANGED <<call, rev, dbOpen, gfsBucket, registrations, blobs>>

\* Mutant of uploadFileToGridFS: the promise resolves with the stream's id
\* although the file never reached the bucket.
uploadFileToGridFSNoFinish(c, s) ==
  /\ rev = "memory"
  /\ req[c].op = "submit"
  /\ req[c].up[s] = "pending"
  /\ req' = [req EXCEPT ![c].up[s] = "ok", ![c].fid[s] = BlobIdOf(c, s)]
  /\ UNCHANGED <<call, rev, dbOpen, gfsBucket, registrations, blobs>>

\* uploadFileToGridFS resolves (part_000): the upload stream finished, the
\* file is in bucket "uploads".  The handler may already have answered 500
\* because the other upload of the Promise.all rejected.
uploadFileToGridFS(c, s) ==
  /\ rev = "memory"
  /\ req[c].op = "submit"
  /\ req[c].up[s] = "pending"
  /\ blobs' = blobs \cup
       {[id |-> BlobIdOf(c, s), bucket |-> BucketOf(rev, s), data |-> BytesOf(c, s)]}
  /\ req' = [req EXCEPT ![c].up[s] = "ok", ![c].fid[s] = BlobIdOf(c, s)]
  /\ UNCHANGED <<call, rev, dbOpen, gfsBucket, registrations>>

\* uploadFileToGridFS rejects (part_000): Promise.all rejects at the first
\* rejection and the handler's catch answers 500; nothing is cleaned up.
uploadFileToGridFSError(c, s) ==
  /\ rev = "memory"
  /\ req[c].op = "submit"
  /\ req[c].up[s] = "pending"
  /\ req' = [req EXCEPT ![c] =
       IF req[c].pc = "upload"
       THEN Answer([req[c] EXCEPT !.up[s] = "failed"], 500, "UploadError")
       ELSE [req[c] EXCEPT !.up[s] = "failed"]]
  /\ UNCHANGED <<call, rev, dbOpen, gfsBucket, registrations, blobs>>

\* routes/register.js: GridFsStorage stored one file part in bucket
\* "uploads".  After the last part the validate chain and the handler run.
GridFsStorageFile(c, s) ==
  /\ rev = "gridfs"
  /\ req[c].pc = "multer"
  /\ req[c].up[s] = "pending"
  /\ blobs' = blobs \cup
       {[id |-> BlobIdOf(c, s), bucket |-> BucketOf(rev, s), data |-> BytesOf(c, s)]}
  /\ req' = [req EXCEPT ![c] =
       IF s = "receipt" /\ "abstractFile" \in req[c].files
       THEN [req[c] EXCEPT !.up[s] = "ok", !.fid[s] = BlobIdOf(c, s),
                           !.up["abstractFile"] = "pending"]
       ELSE [req[c] EXCEPT !.up[s] = "ok", !.fid[s] = BlobIdOf(c, s),
                           !.pc = "findOne"]]
  /\ UNCHANGED <<call, rev, dbOpen, gfsBucket, registrations>>

\* routes/register.js: storing a file part failed.  multer removes the parts
\* it already stored (storage._removeFile) and passes the error on; the
\* handler is skipped and the application error handler answers.
GridFsStorageError(c, s) ==
  /\ rev = "gridfs"
  /\ req[c].pc = "multer"
  /\ req[c].up[s] = "pending"
  /\ blobs' = {b \in blobs : b.id \notin {req[c].fid[t] : t \in Slots}}
  /\ req' = [req EXCEPT ![c] =
       Answer([req[c] EXCEPT !.up[s] = "failed"], 500, "UploadError")]
  /\ UNCHANGED <<call, rev, dbOpen, gfsBucket, registrations>>

\* part_001: receiptStorage and abstractStorage are declared without a
\* value (let receiptStorage; let abstractStorage;) and multer({ storage:
\* receiptStorage, ... }) is evaluated while the module loads; the
\* connection's "open" handler that assigns them runs later, and the multer
\* instances keep the value they were given.
StorageAtModuleLoad == Undefined

\* multer({ storage }): without a storage option (and without dest) multer
\* uses memoryStorage.
multerStorage(option) == IF option = Undefined THEN "memoryStorage" ELSE "GridFsStorage"

\* part_001: the multer instances were built at module load with
\* storage: undefined, so multer falls back to memoryStorage: each
\* uploadWithTimeout resolves with a file that has a buffer and no id, and
\* nothing is written to GridFS.  uploadBoth awaits the receipt, then the
\* abstract, and next() runs the validate chain and the handler.
uploadBoth(c) ==
  /\ rev = "split"
  /\ req[c].pc = "uploadBoth"
  /\ LET stored == {s \in req[c].files : multerStorage(StorageAtModuleLoad) = "GridFsStorage"}
     IN  /\ req' = [req EXCEPT ![c] =
               HandlerEntry([req[c] EXCEPT
                 !.up = [s \in Slots |-> "ok"],
                 !.fid = [s \in Slots |-> IF s \in stored THEN BlobIdOf(c, s) ELSE Undefined]])]
         /\ blobs' = blobs \cup
               {[id |-> BlobIdOf(c, s), bucket |-> BucketOf(rev, s), data |-> BytesOf(c, s)] :
                  s \in stored}
  /\ UNCHANGED <<call, rev, dbOpen, gfsBucket, registrations>>

\* The errors an uploadWithTimeout rejects with: a multer.MulterError (file
\* too large), another Error passed to the callback or thrown (fileFilter's
\* "Invalid file type"), or the timer's Error("Upload timeout for ...").
UploadErrorKinds == {"MulterError", "UploadError", "UploadTimeout"}

\* part_001's first error-handling middleware (line 325) answers every
\* error: 400 for a MulterError, 500 for anything else.  The handler at
\* lines 430-452 (408 for code UPLOAD_TIMEOUT) is registered after it and
\* is never reached; the timer's Error has no code either.
routerErrorStatus(kind) == IF kind = "MulterError" THEN 400 ELSE 500

\* part_001: uploadWithTimeout of slot s rejects; uploadBoth calls next(err)
\* and the router's error handler answers.  The abstract is only started
\* after the receipt resolved.
uploadBothError(c, s, kind) ==
  /\ rev = "split"
  /\ req[c].pc = "uploadBoth"
  /\ req' = [req EXCEPT ![c] =
       Answer([req[c] EXCEPT !.up = [t \in Slots |->
                 IF t = s THEN "failed" ELSE IF t = "receipt" THEN "ok" ELSE "none"]],
              routerErrorStatus(kind), kind)]
  /\ UNCHANGED <<call, rev, dbOpen, gfsBucket, registrations, blobs>>

\* await Registration.findOne({ email }) and the code up to the next await.
FindOne(c) ==
  /\ dbOpen
  /\ req[c].op = "submit"
  /\ req[c].pc = "findOne"
  /\ req' = [req EXCEPT ![c] =
       CASE EmailExists(req[c].email) ->
              Answer(req[c], 400, "DuplicateEmail")
         [] ~EmailExists(req[c].email) /\ rev = "memory" ->
              IF req[c].files # Slots
              THEN Answer(req[c], 400, "FilesRequired")
              ELSE IF ~gfsBucket
              THEN Answer(req[c], 500, "UploadError")
              ELSE [req[c] EXCEPT !.pc = "upload", !.up = [s \in Slots |-> "pending"]]
         [] ~EmailExists(req[c].email) /\ rev = "gridfs" ->
              IF validationErrors(req[c].mobile) # {}
              THEN Answer(req[c], 400, "ValidationFailed")
              ELSE [req[c] EXCEPT !.pc = "create"]
         [] ~EmailExists(req[c].email) /\ rev = "split" ->
              IF req[c].files # Slots
              THEN Answer(req[c], 500, "TypeError")
              ELSE [req[c] EXCEPT !.pc = "create"]]
  /\ UNCHANGED <<call, rev, dbOpen, gfsBucket, registrations, blobs>>

\* The document Registration.create / new Registration builds.  Mongoose's
\* strict mode drops the fields the schema does not declare.
NewRegistration(c) ==
  [_id |-> RegIdOf(c), email |-> req[c].email,
   fileId |-> IF SchemaHasFiles(rev) THEN req[c].fid ELSE NoFiles]

\* Schema validation before the insert: required file fields (part_004).
SchemaInvalid(c) ==
  SchemaHasFiles(rev) /\ \E s \in Slots : req[c].fid[s] = Undefined

\* Mutant of UniqueIndexViolated: the schema without unique: true.
NoUniqueIndex(e) == FALSE

\* email: { unique: true }: the unique index rejects the insert (E11000).
UniqueIndexViolated(e) == EmailExists(e)

\* The handler has reached the create.
AtCreate(c) ==
  \/ req[c].pc = "create"
  \/ rev = "memory" /\ req[c].pc = "upload" /\ \A s \in Slots : req[c].up[s] = "ok"

\* await Registration.create(...) / reg.save() fails; every catch answers 500.
CreateFails(c) ==
  /\ dbOpen
  /\ req[c].op = "submit"
  /\ AtCreate(c)
  /\ SchemaInvalid(c) \/ UniqueIndexViolated(req[c].email)
  /\ req' = [req EXCEPT ![c] =
       Answer(req[c], 500, IF SchemaInvalid(c) THEN "ValidationError" ELSE "E11000")]
  /\ UNCHANGED <<call, rev, dbOpen, gfsBucket, registrations, blobs>>

\* await Registration.create(...) / reg.save() succeeds.  part_000 and
\* part_001 start sendRegistrationMail without awaiting it and answer 201;
\* routes/register.js awaits the mail before it answers.
Create(c) ==
  /\ dbOpen
  /\ req[c].op = "submit"
  /\ AtCreate(c)
  /\ ~SchemaInvalid(c)
  /\ ~UniqueIndexViolated(req[c].email)
  /\ registrations' = registrations \cup {NewRegistration(c)}
  /\ req' = [req EXCEPT ![c] =
       IF rev = "gridfs"
       THEN [req[c] EXCEPT !.regId = RegIdOf(c), !.mail = "pending", !.pc = "mail"]
       ELSE Answer([req[c] EXCEPT !.regId = RegIdOf(c), !.mail = "pending"], 201, "")]
  /\ UNCHANGED <<call, rev, dbOpen, gfsBucket, blobs>>

\* sendRegistrationMail resolves.
MailSent(c) ==
  /\ req[c].mail = "pending"
  /\ req' = [req EXCEPT ![c] =
       IF req[c].pc = "mail"
       THEN Answer([req[c] EXCEPT !.mail = "sent"], 201, "")
       ELSE [req[c] EXCEPT !.mail = "sent"]]
  /\ UNCHANGED <<call, rev, dbOpen, gfsBucket, registrations, blobs>>

\* sendRegistrationMail rejects (mailer.js rethrows).  part_000 / part_001
\* log it in .catch; routes/register.js lands in the handler's catch: 500.
MailFailed(c) ==
  /\ req[c].mail = "pending"
  /\ req' = [req EXCEPT ![c] =
       IF req[c].pc = "mail"
       THEN Answer([req[c] EXCEPT !.mail = "failed"], 500, "MailError")
       ELSE [req[c] EXCEPT !.mail = "failed"]]
  /\ UNCHANGED <<call, rev, dbOpen, gfsBucket, registrations, blobs>>

(***************************************************************************)
(* POST /api/register/test-no-gridfs  (part_001 only)                      *)
(***************************************************************************)

\* The route parses the form with a memoryStorage multer and passes req.body
\* to Registration.create unchanged: no validate chain (the email is stored
\* as sent) and the file ids are whatever the form carries.  withIds: the
\* form carries receiptFileId / abstractFileId (ObjectIds of the client's
\* choosing, which name no file) and the two file names.
StartTestNoGridfs(c, e, withIds) ==
  /\ CanStart(c)
  /\ rev = "split"
  /\ req' = [req EXCEPT ![c] =
       [IdleReq EXCEPT !.op = "testCreate", !.pc = "create", !.email = e,
          !.fid = IF withIds THEN [s \in Slots |-> BlobIdOf(c, s)] ELSE NoFiles]]
  /\ UNCHANGED <<call, rev, dbOpen, gfsBucket, registrations, blobs>>

\* await Registration.create({ ...req.body, note }): res.json({ id }) or the
\* catch's 500.
TestNoGridfsCreate(c) ==
  /\ dbOpen
  /\ req[c].op = "testCreate"
  /\ req[c].pc = "create"
  /\ IF SchemaInvalid(c) \/ UniqueIndexViolated(req[c].email)
     THEN /\ req' = [req EXCEPT ![c] =
                Answer(req[c], 500, IF SchemaInvalid(c) THEN "ValidationError" ELSE "E11000")]
          /\ UNCHANGED registrations
     ELSE /\ registrations' = registrations \cup {NewRegistration(c)}
          /\ req' = [req EXCEPT ![c] = Answer([req[c] EXCEPT !.regId = RegIdOf(c)], 200, "")]
  /\ UNCHANGED <<call, rev, dbOpen, gfsBucket, blobs>>

(***************************************************************************)
(* DELETE /api/register/:id  (Delete)                                      *)
(***************************************************************************)

RegistrationById(id) == {r \in registrations : r._id = id}

\* Ids a client can name: those of the Registration of an earlier run (if
\* there was none, they name nothing), the record ids earlier requests were
\* answered with, and the file ids of the files earlier requests stored or
\* that an earlier Get returned.
KnownRegIds(c) ==
  ({RegIdOf(0)} \cup {req[k].regId : k \in 1 .. (c - 1)}) \ {Undefined}
KnownBlobIds(c) ==
  ({BlobIdOf(0, s) : s \in Slots} \cup
   {req[k].fid[s] : k \in {j \in 1 .. (c - 1) : req[j].op \in {"submit", "get"}}, s \in Slots})
    \ {Undefined}

\* A DELETE request arrives (routes/register.js has no such route).
StartDelete(c, id) ==
  /\ CanStart(c)
  /\ rev # "gridfs"
  /\ req' = [req EXCEPT ![c] =
       [IdleReq EXCEPT !.op = "delete", !.target = id, !.pc = "findById"]]
  /\ UNCHANGED <<call, rev, dbOpen, gfsBucket, registrations, blobs>>

\* The file deletes a Delete still has to run, in the order it starts them:
\* part_000 starts both at once (Promise.all) and deleteFileFromGridFS
\* returns at once for a missing id; part_001 awaits them one after the
\* other and skips a missing id.
FileDeletesStarted(fileId) ==
  IF rev = "memory"
  THEN [s \in Slots |-> IF ~gfsBucket \/ fileId[s] = Undefined THEN "ok" ELSE "pending"]
  ELSE [s \in Slots |->
          IF fileId[s] = Undefined THEN "ok"
          ELSE IF s = "receipt" \/ fileId["receipt"] = Undefined THEN "pending"
          ELSE "none"]

\* Mutant of DeleteFindById: a missing record is answered with success.
DeleteFindByIdMissingOk(c) ==
  /\ dbOpen
  /\ req[c].op = "delete"
  /\ req[c].pc = "findById"
  /\ req' = [req EXCEPT ![c] =
       IF RegistrationById(req[c].target) = {}
       THEN Answer(req[c], 200, "")
       ELSE LET reg == CHOOSE r \in RegistrationById(req[c].target) : TRUE
            IN  [req[c] EXCEPT !.pc = "deleteFiles", !.fid = reg.fileId,
                               !.up = FileDeletesStarted(reg.fileId)]]
  /\ UNCHANGED <<call, rev, dbOpen, gfsBucket, registrations, blobs>>

\* await Registration.findById(id) and the code up to the next await.
DeleteFindById(c) ==
  /\ dbOpen
  /\ req[c].op = "delete"
  /\ req[c].pc = "findById"
  /\ req' = [req EXCEPT ![c] =
       IF RegistrationById(req[c].target) = {}
       THEN Answer(req[c], 404, "NotFound")
       ELSE LET reg == CHOOSE r \in RegistrationById(req[c].target) : TRUE
            IN  [req[c] EXCEPT !.pc = "deleteFiles", !.fid = reg.fileId,
                               !.up = FileDeletesStarted(reg.fileId)]]
  /\ UNCHANGED <<call, rev, dbOpen, gfsBucket, registrations, blobs>>

\* After one file delete settled in part_001: start the next one.
NextFileDelete(r, s) ==
  IF rev = "split" /\ s = "receipt" /\ r.up["abstractFile"] = "none"
  THEN [r EXCEPT !.up["abstractFile"] = "pending"]
  ELSE r

\* Mutant of deleteFileFromGridFS: the delete reports success and the file
\* stays in the bucket.
deleteFileFromGridFSKeepsFile(c, s) ==
  /\ req[c].op = "delete"
  /\ req[c].pc = "deleteFiles"
  /\ req[c].up[s] = "pending"
  /\ req' = [req EXCEPT ![c] = NextFileDelete([req[c] EXCEPT !.up[s] = "ok"], s)]
  /\ UNCHANGED <<call, rev, dbOpen, gfsBucket, registrations, blobs>>

\* bucket.delete(fileId) removed the file.
deleteFileFromGridFS(c, s) ==
  /\ req[c].op = "delete"
  /\ req[c].pc = "deleteFiles"
  /\ req[c].up[s] = "pending"
  /\ \E b \in blobs : b.id = req[c].fid[s] /\ b.bucket = BucketOf(rev, s)
  /\ blobs' = {b \in blobs : ~(b.id = req[c].fid[s] /\ b.bucket = BucketOf(rev, s))}
  /\ req' = [req EXCEPT ![c] = NextFileDelete([req[c] EXCEPT !.up[s] = "ok"], s)]
  /\ UNCHANGED <<call, rev, dbOpen, gfsBucket, registrations>>

\* bucket.delete(fileId) threw (the file is already gone, or the store
\* failed and the file stays).  part_000 catches and logs it inside
\* deleteFileFromGridFS; in part_001 it reaches the handler's catch: 500.
deleteFileFromGridFSError(c, s) ==
  /\ req[c].op = "delete"
  /\ req[c].pc = "deleteFiles"
  /\ req[c].up[s] = "pending"
  /\ req' = [req EXCEPT ![c] =
       IF rev = "memory"
       THEN [req[c] EXCEPT !.up[s] = "failed"]
       ELSE Answer([req[c] EXCEPT !.up[s] = "failed"], 500, "BlobDeleteError")]
  /\ UNCHANGED <<call, rev, dbOpen, gfsBucket, registrations, blobs>>

FileDeletesSettled(c) == \A s \in Slots : req[c].up[s] \in {"ok", "failed"}

\* await Registration.findByIdAndDelete(id), then 200.
DeleteRecord(c) ==
  /\ dbOpen
  /\ req[c].op = "delete"
  /\ req[c].pc = "deleteFiles"
  /\ FileDeletesSettled(c)
  /\ registrations' = registrations \ RegistrationById(req[c].target)
  /\ req' = [req EXCEPT ![c] = Answer(req[c], 200, "")]
  /\ UNCHANGED <<call, rev, dbOpen, gfsBucket, blobs>>

\* Registration.findByIdAndDelete(id) threw: the handler's catch answers 500.
DeleteRecordError(c) ==
  /\ dbOpen
  /\ req[c].op = "delete"
  /\ req[c].pc = "deleteFiles"
  /\ FileDeletesSettled(c)
  /\ req' = [req EXCEPT ![c] = Answer(req[c], 500, "DbError")]
  /\ UNCHANGED <<call, rev, dbOpen, gfsBucket, registrations, blobs>>

(***************************************************************************)
(* GET /api/register/file/:id  (DownloadFile)                              *)
(***************************************************************************)

FilesFound(id, bucket) == {b \in blobs : b.id = id /\ b.bucket = bucket}
FileInBucket(id, bucket) == FilesFound(id, bucket) # {}

\* A download request arrives (routes/register.js has no such route).
\* part_000 answers 500 while gfsBucket is unset; in part_001
\* gfsBuckets.receipts is undefined until "open" and the find throws.
StartDownload(c, id) ==
  /\ CanStart(c)
  /\ rev # "gridfs"
  /\ req' = [req EXCEPT ![c] =
       CASE ~gfsBucket ->
              Answer([IdleReq EXCEPT !.op = "download", !.target = id], 500, "GridFSNotReady")
         [] rev = "memory" /\ gfsBucket ->
              [IdleReq EXCEPT !.op = "download", !.target = id, !.pc = "findUploads"]
         [] rev = "split" /\ gfsBucket ->
              [IdleReq EXCEPT !.op = "download", !.target = id, !.pc = "probeReceipts"]]
  /\ UNCHANGED <<call, rev, dbOpen, gfsBucket, registrations, blobs>>

\* part_001: gfsBuckets.receipts.find({_id}) chooses the bucket to read.
DownloadProbe(c) ==
  /\ req[c].op = "download"
  /\ req[c].pc = "probeReceipts"
  /\ req' = [req EXCEPT ![c].pc =
       IF FileInBucket(req[c].target, "receipts") THEN "findReceipts" ELSE "findAbstracts"]
  /\ UNCHANGED <<call, rev, dbOpen, gfsBucket, registrations, blobs>>

\* The bucket a download at this pc reads.
DownloadBucket(pc) ==
  CASE pc = "findUploads" -> "uploads"
    [] pc = "findReceipts" -> "receipts"
    [] pc = "findAbstracts" -> "abstracts"

\* bucket.find({_id}).toArray(): 404 when empty, else the file's bytes are
\* streamed (openDownloadStream(fileId).pipe(res)).
DownloadFind(c) ==
  /\ req[c].op = "download"
  /\ req[c].pc \in {"findUploads", "findReceipts", "findAbstracts"}
  /\ req' = [req EXCEPT ![c] =
       IF FileInBucket(req[c].target, DownloadBucket(req[c].pc))
       THEN Answer([req[c] EXCEPT !.body =
                      (CHOOSE b \in FilesFound(req[c].target, DownloadBucket(req[c].pc)) : TRUE).data],
                   200, "")
       ELSE Answer(req[c], 404, "FileNotFound")]
  /\ UNCHANGED <<call, rev, dbOpen, gfsBucket, registrations, blobs>>

(***************************************************************************)
(* GET /api/register/:id  (Get)                                            *)
(***************************************************************************)

\* A GET /:id request arrives (routes/register.js has no such route).
StartGet(c, id) ==
  /\ CanStart(c)
  /\ rev # "gridfs"
  /\ req' = [req EXCEPT ![c] =
       [IdleReq EXCEPT !.op = "get", !.target = id, !.pc = "findById"]]
  /\ UNCHANGED <<call, rev, dbOpen, gfsBucket, registrations, blobs>>

\* await Registration.findById(id): 404, or 200 with the whole record, the
\* two file ids included.
GetFindById(c) ==
  /\ dbOpen
  /\ req[c].op = "get"
  /\ req[c].pc = "findById"
  /\ req' = [req EXCEPT ![c] =
       IF RegistrationById(req[c].target) = {}
       THEN Answer(req[c], 404, "NotFound")
       ELSE Answer([req[c] EXCEPT !.fid =
                      (CHOOSE r \in RegistrationById(req[c].target) : TRUE).fileId],
                   200, "")]
  /\ UNCHANGED <<call, rev, dbOpen, gfsBucket, registrations, blobs>>

Next ==
  \/ ConnectionOpen
  \/ \E c \in Reqs, e \in RawEmails, m \in MobileLengths, f \in FileSets :
       StartSubmit(c, e, m, f)
  \/ \E c \in Reqs, s \in Slots : uploadFileToGridFS(c, s)
  \/ \E c \in Reqs, s \in Slots : uploadFileToGridFSError(c, s)
  \/ \E c \in Reqs, s \in Slots : GridFsStorageFile(c, s)
  \/ \E c \in Reqs, s \in Slots : GridFsStorageError(c, s)
  \/ \E c \in Reqs : uploadBoth(c)
  \/ \E c \in Reqs, s \in Slots, kind \in UploadErrorKinds : uploadBothError(c, s, kind)
  \/ \E c \in Reqs : FindOne(c)
  \/ \E c \in Reqs : CreateFails(c)
  \/ \E c \in Reqs : Create(c)
  \/ \E c \in Reqs : MailSent(c)
  \/ \E c \in Reqs : MailFailed(c)
  \/ \E c \in Reqs, e \in RawEmails, withIds \in BOOLEAN : StartTestNoGridfs(c, e, withIds)
  \/ \E c \in Reqs : TestNoGridfsCreate(c)
  \/ \E c \in Reqs : \E id \in KnownRegIds(c) : StartDelete(c, id)
  \/ \E c \in Reqs : DeleteFindById(c)
  \/ \E c \in Reqs, s \in Slots : deleteFileFromGridFS(c, s)
  \/ \E c \in Reqs, s \in Slots : deleteFileFromGridFSError(c, s)
  \/ \E c \in Reqs : DeleteRecord(c)
  \/ \E c \in Reqs : DeleteRecordError(c)
  \/ \E c \in Reqs : \E id \in KnownBlobIds(c) : StartDownload(c, id)
  \/ \E c \in Reqs : DownloadProbe(c)
  \/ \E c \in Reqs : DownloadFind(c)
  \/ \E c \in Reqs : \E id \in KnownRegIds(c) : StartGet(c, id)
  \/ \E c \in Reqs : GetFindById(c)

Spec == Init /\ [][Next]_vars

\* The specifications of a single invocation leave the stores and the
\* requests as they are at start, with no request in progress.
NoRequests ==
  /\ dbOpen = FALSE
  /\ gfsBucket = FALSE
  /\ registrations = {}
  /\ blobs = {}
  /\ req = [c \in Reqs |-> IdleReq]

TypeOK ==
  /\ rev \in Revisions
  /\ dbOpen \in BOOLEAN
  /\ gfsBucket \in BOOLEAN
  /\ \A r \in registrations : r._id \in {RegIdOf(c) : c \in 0 .. MaxReqs}
  /\ \A b \in blobs : b.id \in {BlobIdOf(c, s) : c \in 0 .. MaxReqs, s \in Slots}
  /\ \A c \in Reqs :
       /\ req[c].op \in {"idle", "submit", "testCreate", "delete", "download", "get"}
       /\ req[c].status \in {0, 200, 201, 400, 404, 500}
       /\ req[c].mail \in {"none", "pending", "sent", "failed"}
       /\ \A s \in Slots : req[c].up[s] \in {"none", "pending", "ok", "failed"}

(***************************************************************************)
(* The file-type filter: upload.fileFilter (part_000), GridFsStorage.file  *)
(* (routes/register.js), receiptUpload / abstractUpload fileFilter         *)
(* (part_001).  File names are sequences of one-character strings.         *)
(***************************************************************************)

\* ["pdf", "doc", "docx", "png", "jpg", "jpeg"]; the regular expression
\* /pdf|doc|docx|png|jpg|jpeg/ has the same six alternatives.
ALLOWED_EXTENSIONS ==
  { <<"p","d","f">>, <<"d","o","c">>, <<"d","o","c","x">>,
    <<"p","n","g">>, <<"j","p","g">>, <<"j","p","e","g">> }

\* Extensions the file names under study carry.
OtherExtensions ==
  { <<"P","D","F">>, <<"J","p","g">>, <<"D","o","c","X">>,
    <<"p","d","f","x">>, <<"x","p","d","f">>, <<"d","o","c","m">>,
    <<"j","p","e","g","s">>, <<"a","p","n","g">>, <<"m","j","p","g","x">>,
    <<"t","x","t">>, <<"e","x","e">>, <<"j","p","e">>, <<"p","d">>, <<"j","s">>,
    <<>> }

\* originalname: a stem, a dot and an extension; the stem may hold dots and an
\* allowed extension of its own.  The last three names have no dot at all.
FileNames ==
  { stem \o <<".">> \o ext :
      stem \in { <<"a">>, <<"a",".","p","d","f">>, <<"p","n","g",".","t">> },
      ext \in ALLOWED_EXTENSIONS \cup OtherExtensions }
  \cup { <<"p","d","f">>, <<"a">>, <<"m","y","d","o","c","s">> }

\* String.prototype.toLowerCase on the letters the names use.
LowerChar(ch) ==
  CASE ch = "P" -> "p" [] ch = "D" -> "d" [] ch = "F" -> "f" [] ch = "J" -> "j"
    [] ch = "X" -> "x" [] OTHER -> ch
toLowerCase(s) == [i \in 1 .. Len(s) |-> LowerChar(s[i])]

\* Position of the last "." of a name, 0 when it has none.
LastDot(name) ==
  LET dots == {i \in 1 .. Len(name) : name[i] = "."}
  IN  IF dots = {} THEN 0 ELSE CHOOSE i \in dots : \A j \in dots : j <= i

\* name.split(".").pop(): the text after the last ".", and the whole name
\* when there is no ".".
SplitPop(name) == SubSeq(name, LastDot(name) + 1, Len(name))

\* RegExp.prototype.test for an unanchored alternation: some alternative
\* occurs somewhere in s.
RegExpTest(alternatives, s) ==
  \E a \in alternatives : \E i \in 1 .. (Len(s) - Len(a) + 1) :
    SubSeq(s, i, i + Len(a) - 1) = a

\* Whether the revision's filter lets the file through.  part_000 and
\* routes/register.js test the regular expression, part_001 uses
\* Array.prototype.includes.  (part_000 also wants file.mimetype, which the
\* multipart parser always sets.)
fileFilter(r, name) ==
  LET ext == toLowerCase(SplitPop(name))
  IN  IF r = "split" THEN ext \in ALLOWED_EXTENSIONS
      ELSE RegExpTest(ALLOWED_EXTENSIONS, ext)

InitFileFilter ==
  /\ rev \in Revisions
  /\ NoRequests
  /\ \E name \in FileNames :
       call = [fn |-> "fileFilter", name |-> name, result |-> "pending"]

\* multer / GridFsStorage calls the filter for the file part: the file goes
\* on to the storage, or the request fails with the filter's error.
FileFilterCall ==
  /\ call.fn = "fileFilter"
  /\ call.result = "pending"
  /\ call' = [call EXCEPT !.result =
       IF fileFilter(rev, call.name) THEN "accepted" ELSE "rejected"]
  /\ UNCHANGED <<rev, dbOpen, gfsBucket, registrations, blobs, req>>

NextFileFilter == FileFilterCall

SpecFileFilter == InitFileFilter /\ [][NextFileFilter]_vars

(***************************************************************************)
(* GET /api/register  (List): part_000 lines 151-172, part_001 lines       *)
(* 247-271 (the same code), routes/register.js lines 143-151.              *)
(***************************************************************************)

\* Largest number of stored records a List is studied on.
MaxTotal == 15

\* A query parameter: absent, or the text given (one-character strings).
AbsentParam == [present |-> FALSE, text |-> <<>>]
ParamTexts ==
  { <<>>, <<"a","b","c">>, <<"0">>, <<"1">>, <<"2">>, <<"3">>, <<"1","0">>,
    <<"-","1">>, <<"-","2">>, <<"2","a">>, <<"1",".","5">>, <<"+","2">>, <<" ","2">> }
QueryParams == {AbsentParam} \cup {[present |-> TRUE, text |-> s] : s \in ParamTexts}

DigitChars == {"0", "1", "2", "3", "4", "5", "6", "7", "8", "9"}
DigitValue(ch) ==
  CASE ch = "0" -> 0 [] ch = "1" -> 1 [] ch = "2" -> 2 [] ch = "3" -> 3 [] ch = "4" -> 4
    [] ch = "5" -> 5 [] ch = "6" -> 6 [] ch = "7" -> 7 [] ch = "8" -> 8 [] ch = "9" -> 9

\* The value of the digits of s from position i up to the first character
\* that is not a digit.
RECURSIVE ParseDigits(_, _, _)
ParseDigits(s, i, acc) ==
  IF i > Len(s) \/ s[i] \notin DigitChars THEN acc
  ELSE ParseDigits(s, i + 1, acc * 10 + DigitValue(s[i]))

NaN == [nan |-> TRUE, val |-> 0]

\* parseInt(x): leading blanks are skipped, then an optional sign, then the
\* longest run of digits; NaN when there is no digit there (also for
\* undefined).  The rest of the text is ignored.
parseInt(q) ==
  LET s == q.text
      blanks == {i \in 1 .. Len(s) : \A j \in 1 .. i : s[j] = " "}
      start == Cardinality(blanks) + 1
      signed == start <= Len(s) /\ s[start] \in {"-", "+"}
      first == IF signed THEN start + 1 ELSE start
  IN  IF ~q.present \/ first > Len(s) \/ s[first] \notin DigitChars THEN NaN
      ELSE [nan |-> FALSE,
            val |-> (IF signed /\ s[start] = "-" THEN -1 ELSE 1) * ParseDigits(s, first, 0)]

\* parseInt(x) || d: NaN and 0 are falsy.
OrDefault(n, d) == IF n.nan \/ n.val = 0 THEN d ELSE n.val

\* createdAt of the i-th record in insertion order.  createdAt is set when
\* the document is built, so the inserts of two overlapping requests can
\* land in the other order: here every second pair did.
CreatedAtOf(i) == IF i % 2 = 1 THEN i + 1 ELSE i - 1

\* .sort({ createdAt: -1 }): the records (by insertion position) newest first.
RECURSIVE SortNewestFirst(_, _)
SortNewestFirst(store, ids) ==
  IF ids = {} THEN <<>>
  ELSE LET newest == CHOOSE i \in ids : \A j \in ids : store[j] <= store[i]
       IN  <<newest>> \o SortNewestFirst(store, ids \ {newest})

\* .skip(skip).limit(limit) of the driver: a negative limit asks for that
\* many documents in a single batch.
SkipLimit(seq, skip, limit) ==
  LET n == IF limit < 0 THEN -limit ELSE limit
      last == IF skip + n < Len(seq) THEN skip + n ELSE Len(seq)
  IN  SubSeq(seq, skip + 1, last)

\* Math.ceil(total / limit) for total >= 0 and limit # 0.
MathCeilDiv(total, limit) ==
  IF limit > 0 THEN (total + limit - 1) \div limit ELSE -(total \div (-limit))

NoResponse ==
  [status |-> 0, data |-> <<>>, pagination |-> FALSE, total |-> 0, page |-> 0, pages |-> 0]

InitList ==
  /\ rev \in Revisions
  /\ NoRequests
  /\ \E total \in 0 .. MaxTotal, page \in QueryParams, limit \in QueryParams :
       call = [fn |-> "list", pc |-> "start",
               store |-> [i \in 1 .. total |-> CreatedAtOf(i)],
               pageParam |-> page, limitParam |-> limit,
               page |-> 0, limit |-> 0, skip |-> 0, res |-> NoResponse]

\* The handler up to its await.  part_000 / part_001 compute page, limit and
\* skip; routes/register.js reads no parameter.
ListStart ==
  /\ call.fn = "list"
  /\ call.pc = "start"
  /\ call' =
       IF rev = "gridfs" THEN [call EXCEPT !.pc = "find"]
       ELSE LET page == OrDefault(parseInt(call.pageParam), 1)
                limit == OrDefault(parseInt(call.limitParam), 10)
            IN  [call EXCEPT !.pc = "find", !.page = page, !.limit = limit,
                             !.skip = (page - 1) * limit]
  /\ UNCHANGED <<rev, dbOpen, gfsBucket, registrations, blobs, req>>

\* The queries settle and the handler answers.  The server rejects a
\* negative skip, and the catch answers 500.  routes/register.js answers
\* with the bare array of Registration.find().
ListAnswer ==
  /\ call.fn = "list"
  /\ call.pc = "find"
  /\ call' = [call EXCEPT !.pc = "done", !.res =
       CASE rev = "gridfs" ->
              [NoResponse EXCEPT !.status = 200,
                 !.data = [i \in 1 .. Len(call.store) |-> i]]
         [] rev # "gridfs" /\ call.skip < 0 ->
              [NoResponse EXCEPT !.status = 500]
         [] rev # "gridfs" /\ call.skip >= 0 ->
              [status |-> 200,
               data |-> SkipLimit(SortNewestFirst(call.store, DOMAIN call.store),
                                  call.skip, call.limit),
               pagination |-> TRUE,
               total |-> Len(call.store),
               page |-> call.page,
               pages |-> MathCeilDiv(Len(call.store), call.limit)]]
  /\ UNCHANGED <<rev, dbOpen, gfsBucket, registrations, blobs, req>>

NextList == ListStart \/ ListAnswer

SpecList == InitList /\ [][NextList]_vars

(***************************************************************************)
(* declarationValue: routes/register.js lines 104-112, part_000 line 124,  *)
(* part_001 line 209.  A JavaScript value is written "type:text".          *)
(***************************************************************************)

\* req.body.declaration: form fields arrive as strings; a JSON body can
\* carry booleans, numbers and null; the field can be absent.
DeclarationValues ==
  { "string:true", "string:on", "boolean:true", "number:1", "string:1",
    "string:false", "string:off", "boolean:false", "number:0", "string:0",
    "string:", "string:TRUE", "string:On", "string:yes", "string: true",
    "string:2", "number:2", "number:-1", "null", "undefined" }

\* ["true", "on", true, 1, "1"].includes(x) compares by SameValueZero: the
\* type counts.
IncludesList == {"string:true", "string:on", "boolean:true", "number:1", "string:1"}

\* x === true || x === "true" || x === "on"
StrictEqualsChain == {"boolean:true", "string:true", "string:on"}

declarationValue(r, x) ==
  IF r = "gridfs" THEN x \in StrictEqualsChain ELSE x \in IncludesList

InitDeclaration ==
  /\ rev \in Revisions
  /\ NoRequests
  /\ \E x \in DeclarationValues :
       call = [fn |-> "declaration", value |-> x, pc |-> "start", flag |-> FALSE]

\* The Submit handler computes the flag it stores.
DeclarationCall ==
  /\ call.fn = "declaration"
  /\ call.pc = "start"
  /\ call' = [call EXCEPT !.pc = "done", !.flag = declarationValue(rev, call.value)]
  /\ UNCHANGED <<rev, dbOpen, gfsBucket, registrations, blobs, req>>

NextDeclaration == DeclarationCall

SpecDeclaration == InitDeclaration /\ [][NextDeclaration]_vars

(***************************************************************************)
(* uploadWithTimeout and uploadBoth (part_001 lines 89-153), one request,  *)
(* event by event: the timer, multer's callback, a synchronous throw.      *)
(***************************************************************************)

MaxUploadReqs == 2
UploadReqs == 1 .. MaxUploadReqs

\* What multer does with one upload call: it calls back without an error
\* (req.file set, or undefined when the field is missing), it calls back with
\* an error, it throws before it returns, it throws and calls back all the
\* same, it calls back and then throws, or it never calls back.
UploadBehaviours ==
  {"callbackFile", "callbackNoFile", "callbackErr", "throws", "throwsThenCallback",
   "callbackThenThrows", "hangs"}

\* One uploadWithTimeout call: the closure's flag and timer, multer's
\* callback, the number of resolve / reject calls made, the promise, and
\* which branch settled it.
FreshUpload ==
  [started |-> FALSE, uploadFinished |-> FALSE, timer |-> "unset", cb |-> "none",
   outcome |-> "none", settles |-> 0, promise |-> "pending", by |-> "none"]

\* One request inside uploadBoth.
FreshUploadBoth ==
  [pc |-> "receipt", up |-> [s \in Slots |-> FreshUpload], nextCalls |-> 0, nextErr |-> FALSE]

\* resolve(...) / reject(...) is called: a promise keeps its first
\* settlement.
Settle(u, outcome, branch) ==
  [u EXCEPT !.settles = u.settles + 1,
            !.promise = IF u.promise = "pending" THEN outcome ELSE u.promise,
            !.by = IF u.promise = "pending" THEN branch ELSE u.by]

\* clearTimeout(timer)
ClearTimeout(u) == [u EXCEPT !.timer = IF u.timer = "armed" THEN "cleared" ELSE u.timer]

\* What the callback's last branch settles the promise with.
CallbackSettlement(u) ==
  CASE u.outcome = "err" -> "rejected"
    [] u.outcome = "file" -> "resolvedFile"
    [] OTHER -> "resolvedUndefined"

\* The setTimeout callback (lines 94-99).
TimerBody(u) ==
  IF ~u.uploadFinished
  THEN Settle([u EXCEPT !.uploadFinished = TRUE], "rejected", "timer")
  ELSE u

\* The callback without its first line (if (uploadFinished) return).
CallbackBodyNoGuard(u) ==
  Settle(ClearTimeout([u EXCEPT !.uploadFinished = TRUE]), CallbackSettlement(u), "callback")

\* The callback given to uploadFn (lines 102-114).
CallbackBody(u) ==
  IF u.uploadFinished THEN u
  ELSE Settle(ClearTimeout([u EXCEPT !.uploadFinished = TRUE]), CallbackSettlement(u), "callback")

\* The catch around the uploadFn call (lines 115-121).
CatchBody(u) ==
  IF ~u.uploadFinished
  THEN Settle(ClearTimeout([u EXCEPT !.uploadFinished = TRUE]), "rejected", "throw")
  ELSE u

InitUpload ==
  /\ rev = "split"
  /\ NoRequests
  /\ call = [fn |-> "uploadBoth", r |-> [q \in UploadReqs |-> FreshUploadBoth]]

\* uploadBoth calls uploadWithTimeout for the slot it has reached: the
\* executor arms the timer and calls the multer middleware inside try; a
\* callback made before the middleware returns runs at once, and a throw is
\* caught at once.
UploadCall(q, s, behaviour) ==
  /\ call.fn = "uploadBoth"
  /\ call.r[q].pc = s
  /\ ~call.r[q].up[s].started
  /\ LET armed == [FreshUpload EXCEPT !.started = TRUE, !.timer = "armed",
                      !.cb = IF behaviour \in {"throws", "hangs"} THEN "none" ELSE "pending",
                      !.outcome = CASE behaviour \in {"callbackFile", "callbackThenThrows"} -> "file"
                                    [] behaviour = "callbackNoFile" -> "undefined"
                                    [] behaviour \in {"callbackErr", "throwsThenCallback"} -> "err"
                                    [] OTHER -> "none"]
     IN  call' = [call EXCEPT !.r[q].up[s] =
           CASE behaviour \in {"throws", "throwsThenCallback"} -> CatchBody(armed)
             [] behaviour = "callbackThenThrows" ->
                  CatchBody(CallbackBody([armed EXCEPT !.cb = "called"]))
             [] OTHER -> armed]
  /\ UNCHANGED <<rev, dbOpen, gfsBucket, registrations, blobs, req>>

\* The timer expires after MAX_UPLOAD_TIME.
UploadTimerFires(q, s) ==
  /\ call.fn = "uploadBoth"
  /\ call.r[q].up[s].timer = "armed"
  /\ call' = [call EXCEPT !.r[q].up[s] = TimerBody([call.r[q].up[s] EXCEPT !.timer = "fired"])]
  /\ UNCHANGED <<rev, dbOpen, gfsBucket, registrations, blobs, req>>

\* multer calls the callback given to uploadFn, some time after the
\* middleware returned.
UploadCallback(q, s) ==
  /\ call.fn = "uploadBoth"
  /\ call.r[q].up[s].cb = "pending"
  /\ call' = [call EXCEPT !.r[q].up[s] = CallbackBody([call.r[q].up[s] EXCEPT !.cb = "called"])]
  /\ UNCHANGED <<rev, dbOpen, gfsBucket, registrations, blobs, req>>

\* uploadBoth resumes after its await: after the receipt it goes on to the
\* abstract; after the abstract it calls next(); a rejection lands in the
\* catch, which calls next(err).
UploadBothResumes(q, s) ==
  /\ call.fn = "uploadBoth"
  /\ call.r[q].pc = s
  /\ call.r[q].up[s].promise # "pending"
  /\ call' =
       IF call.r[q].up[s].promise = "rejected"
       THEN [call EXCEPT !.r[q].pc = "done", !.r[q].nextCalls = call.r[q].nextCalls + 1,
                         !.r[q].nextErr = TRUE]
       ELSE IF s = "receipt"
       THEN [call EXCEPT !.r[q].pc = "abstractFile"]
       ELSE [call EXCEPT !.r[q].pc = "done", !.r[q].nextCalls = call.r[q].nextCalls + 1]
  /\ UNCHANGED <<rev, dbOpen, gfsBucket, registrations, blobs, req>>

NextUpload ==
  \/ \E q \in UploadReqs, s \in Slots, behaviour \in UploadBehaviours : UploadCall(q, s, behaviour)
  \/ \E q \in UploadReqs, s \in Slots : UploadTimerFires(q, s)
  \/ \E q \in UploadReqs, s \in Slots : UploadCallback(q, s)
  \/ \E q \in UploadReqs, s \in Slots : UploadBothResumes(q, s)

SpecUpload == InitUpload /\ [][NextUpload]_vars

(***************************************************************************)
(* Properties                                                              *)
(***************************************************************************)

Submits == {c \in Reqs : req[c].op = "submit"}
Deletes == {c \in Reqs : req[c].op = "delete"}
Downloads == {c \in Reqs : req[c].op = "download"}

\* The blobs request c stored are all gone from the Blob Store.
NoBlobRemains(c) == \A s \in Slots : req[c].fid[s] \notin BlobIds

\* Request c stored no blob at all.
WroteNoBlob(c) == \A s \in Slots : req[c].fid[s] = Undefined

\* C1: in every reachable state no two stored Registrations have the same
\* email, whatever the interleaving of the Submits.
C1_EmailUnique ==
  \A r1, r2 \in registrations : r1.email = r2.email => r1 = r2

\* C1 witness: two Submits passed the pre-check with the same email; one
\* created the record and the unique index rejected the other's create.
C1_Witness ==
  \E c1, c2 \in Submits :
    /\ c1 # c2
    /\ req[c1].regId # Undefined
    /\ RegistrationById(req[c1].regId) # {}
    /\ req[c2].err = "E11000"

\* C2 (as claimed): the Submit whose create the unique index rejects is
\* answered 400 DuplicateEmail, not a generic server error, and creates no
\* record.
C2_RaceLoserAnswered400 ==
  \A c \in Submits :
    req[c].err = "E11000" => req[c].status = 400 /\ req[c].regId = Undefined

\* C3 (as claimed): a Submit whose email the pre-check finds in the Record
\* Store fails with DuplicateEmail (400) and, once it has completed, no blob
\* it uploaded remains in the Blob Store.
C3_DuplicateLeavesNoBlob ==
  \A c \in Submits :
    req[c].err = "DuplicateEmail" => req[c].status = 400 /\ NoBlobRemains(c)

\* C4 (as claimed): when one upload of a Submit succeeded and the other
\* failed, the stored blob is gone once the failure has been answered.
C4_PartialUploadCleaned ==
  \A c \in Submits :
    (req[c].status # 0 /\ \E s \in Slots : req[c].up[s] = "failed")
      => NoBlobRemains(c)

\* C5 (as claimed): when both uploads succeeded and the create then failed on
\* the unique-email index, both blobs are gone once the error is answered.
C5_RaceLoserBlobsRolledBack ==
  \A c \in Submits :
    (req[c].err = "E11000" /\ \A s \in Slots : req[c].up[s] = "ok")
      => NoBlobRemains(c)

\* C6 (as claimed): a record is created only after both uploads succeeded,
\* the Notifier is triggered only after the record was created, and a
\* Submit with a failed upload creates no record and notifies nobody.
C6_UploadsThenRecordThenMail ==
  \A c \in Submits :
    /\ req[c].regId # Undefined => \A s \in Slots : req[c].up[s] = "ok"
    /\ req[c].mail # "none" => req[c].regId # Undefined
    /\ (\E s \in Slots : req[c].up[s] = "failed")
         => req[c].regId = Undefined /\ req[c].mail = "none"

\* C7 (as claimed): a Submit that fails validation or the duplicate-email
\* pre-check has written no blob and no record.
C7_EarlyFailureWritesNothing ==
  \A c \in Submits :
    req[c].err \in {"ValidationFailed", "DuplicateEmail"}
      => WroteNoBlob(c) /\ req[c].regId = Undefined

\* C8 (as claimed): once the record of a Submit is created the response is
\* 201, whether the Notifier is still pending, succeeded or failed.
C8_NotifierNeverChangesResponse ==
  \A c \in Submits : req[c].regId # Undefined => req[c].status = 201

\* A Delete that found its Registration (it is past findById).
DeleteFound(c) ==
  /\ req[c].op = "delete"
  /\ \/ req[c].pc = "deleteFiles"
     \/ req[c].pc = "done" /\ req[c].status \in {200, 500}

HandleLive(r, s) == FileInBucket(r.fileId[s], BucketOf(rev, s))

\* C9 (as claimed): the file handles of every stored Registration (those its
\* schema gives it) refer to existing blobs in every reachable state, also
\* in the middle of a Delete and after a Delete that ended in an error.
C9_BothHandlesAlwaysLive ==
  \A r \in registrations :
    \A s \in Slots : r.fileId[s] # Undefined => HandleLive(r, s)

\* A Registration that a Submit stored (in this run or an earlier one), as
\* opposed to one written through the test-no-gridfs route.
StoredBySubmit(r) ==
  \/ r._id = RegIdOf(0)
  \/ \E c \in Submits : req[c].regId = r._id

\* C9 (amended): every file handle attached to a Registration that a Submit
\* stored refers to an existing blob as long as no Delete has found that
\* Registration.
C9_AttachedHandlesLiveUntilDelete ==
  \A r \in registrations :
    (StoredBySubmit(r) /\ \A c \in Deletes : ~(DeleteFound(c) /\ req[c].target = r._id))
      => \A s \in Slots : r.fileId[s] # Undefined => HandleLive(r, s)

\* C9 witness: a stored Registration with both handles attached and live,
\* while a Delete of another Registration has removed that one's blobs.
C9_Witness ==
  \E r \in registrations :
    /\ \A s \in Slots : r.fileId[s] # Undefined /\ HandleLive(r, s)
    /\ \A c \in Deletes : req[c].target # r._id
    /\ \E c \in Deletes :
         DeleteFound(c) /\ \E s \in Slots : req[c].up[s] = "ok" /\ req[c].fid[s] # Undefined

\* A Delete answered with success.
DeleteSucceeded(c) == req[c].op = "delete" /\ req[c].status = 200

\* C10 (as claimed): after a successful Delete the record and both of its
\* blobs are absent, so DownloadFile of either blob id answers 404.
C10_DeleteRemovesRecordAndBlobs ==
  \A d \in Reqs :
    DeleteSucceeded(d) =>
      /\ RegistrationById(req[d].target) = {}
      /\ NoBlobRemains(d)
      /\ \A c \in Downloads :
           (c > d /\ req[c].target \in {req[d].fid[s] : s \in Slots})
             => req[c].status \in {0, 404}

\* The blobs a successful Delete removed itself (bucket.delete did not throw).
BlobsDeletedBy(d) ==
  {req[d].fid[s] : s \in {t \in Slots : req[d].up[t] = "ok" /\ req[d].fid[t] # Undefined}}

\* C10 (amended): after a successful Delete the record is absent and every
\* blob whose delete did not fail is absent; a DownloadFile of such a blob
\* id that is answered after the Delete answers 404.
C10_DeleteRemovesRecordAndDeletedBlobs ==
  [][\A d \in Reqs :
       DeleteSucceeded(d)' =>
         /\ RegistrationById(req[d].target)' = {}
         /\ BlobsDeletedBy(d)' \cap BlobIds' = {}
         /\ \A c \in Reqs :
              (/\ DeleteSucceeded(d)
               /\ req[c].op = "download"
               /\ req[c].target \in BlobsDeletedBy(d)
               /\ req[c].status = 0)
                => req'[c].status \in {0, 404}]_vars

\* C10 witness: a Delete succeeded with both blob deletes done, and a
\* DownloadFile of one of those blobs issued after it was answered 404.
C10_Witness ==
  \E d \in Reqs : \E c \in Downloads :
    /\ DeleteSucceeded(d)
    /\ \A s \in Slots : req[d].up[s] = "ok" /\ req[d].fid[s] # Undefined
    /\ c > d
    /\ req[c].target \in BlobsDeletedBy(d)
    /\ req[c].status = 404

\* C11 (as claimed): a Delete that found its Registration and had a blob
\* delete fail still deletes the record and answers success (200); the blob
\* error is only logged.  (A failure of the record delete itself is not the
\* claim's case.)
C11_BlobDeleteErrorNeverAborts ==
  \A d \in Deletes :
    (/\ req[d].pc = "done"
     /\ \E s \in Slots : req[d].up[s] = "failed"
     /\ req[d].err # "DbError")
      => req[d].status = 200 /\ RegistrationById(req[d].target) = {}

\* C12 (as claimed): a Submit one of whose uploads ran into the upload
\* timeout is answered 408 UploadTimeout, creates no Registration, and no
\* blob it stored remains.
C12_TimeoutAnswered408 ==
  \A c \in Submits :
    req[c].err = "UploadTimeout" =>
      /\ req[c].status = 408
      /\ req[c].regId = Undefined
      /\ RegistrationById(RegIdOf(c)) = {}
      /\ NoBlobRemains(c)

\* The extension as the specification defines it: the text after the last
\* "." of the original filename, lower-cased.  A name without "." is taken
\* whole, which is how every revision reads it.
ExtensionOf(name) ==
  toLowerCase([i \in 1 .. (Len(name) - LastDot(name)) |-> name[LastDot(name) + i]])

\* C13 (as claimed): the filter accepts a file exactly when its extension is
\* one of pdf, doc, docx, png, jpg, jpeg; every other file is rejected (and
\* so never reaches the Blob Store).
C13_AcceptedIffAllowedExtension ==
  (call.fn = "fileFilter" /\ call.result # "pending") =>
    (call.result = "accepted" <=> ExtensionOf(call.name) \in ALLOWED_EXTENSIONS)

Gets == {c \in Reqs : req[c].op = "get"}

\* A Submit that carried valid fields and two files, both of which the
\* upload step took, and that was answered without meeting a duplicate
\* email or a failing mail transport.
ValidSubmitAnswered(c) ==
  /\ req[c].op = "submit"
  /\ req[c].pc = "done"
  /\ \A s \in Slots : req[c].up[s] = "ok"
  /\ req[c].err \notin {"ValidationFailed", "DuplicateEmail", "FilesRequired",
                        "TypeError", "E11000", "MailError"}

\* C14 (as claimed): every valid Submit with two conforming files succeeds;
\* a Get of a Registration a Submit stored returns both file ids; and a
\* DownloadFile that streams a file returns the bytes uploaded for the slot
\* the id belongs to.
C14_ValidSubmitRoundTrip ==
  /\ \A c \in Reqs :
       ValidSubmitAnswered(c) => req[c].status = 201 /\ req[c].regId # Undefined
  /\ \A g \in Gets :
       (req[g].status = 200 /\ \E r \in RegistrationById(req[g].target) : StoredBySubmit(r))
         => \A s \in Slots : req[g].fid[s] # Undefined
  /\ \A d \in Downloads :
       req[d].status = 200 =>
         \E c \in 0 .. MaxReqs, s \in Slots :
           req[d].target = BlobIdOf(c, s) /\ req[d].body = BytesOf(c, s)

\* A step in which a Delete looks up an id whose Registration is not in the
\* Record Store answers 404 and leaves both stores as they are.
DeleteOfDeletedStep ==
  \A c \in Reqs :
    (/\ req[c].op = "delete"
     /\ req[c].pc = "findById"
     /\ req'[c].pc # "findById"
     /\ RegistrationById(req[c].target) = {})
      => /\ req'[c].status = 404
         /\ registrations' = registrations
         /\ blobs' = blobs

\* No two Deletes of the same id have both answered success.
AtMostOneDeleteSucceeds ==
  \A d1, d2 \in Reqs :
    (DeleteSucceeded(d1) /\ DeleteSucceeded(d2) /\ req[d1].target = req[d2].target)
      => d1 = d2

\* C15 (as claimed): a Delete of an id whose Registration is already deleted
\* answers 404 and changes neither store, and for any id at most one Delete
\* answers success.
C15_DeleteIdempotentAtMostOneSuccess ==
  [][DeleteOfDeletedStep /\ AtMostOneDeleteSucceeds']_vars

\* C15 (amended): a Delete that looks its id up after the Registration was
\* deleted answers 404 and changes neither store.  (Two Deletes that both
\* look the record up before either removes it both answer success.)
C15_DeleteOfDeletedAnswers404 == [][DeleteOfDeletedStep]_vars

\* C15 witness: a Delete answered success and a later Delete of the same id
\* was answered 404.
C15_Witness ==
  \E d1, d2 \in Deletes :
    /\ d1 < d2
    /\ req[d1].target = req[d2].target
    /\ DeleteSucceeded(d1)
    /\ req[d2].status = 404

\* A parameter that is a plain decimal numeral, and its value.
PlainNumeral(q) ==
  q.present /\ Len(q.text) > 0 /\ \A i \in 1 .. Len(q.text) : q.text[i] \in DigitChars
NumeralValue(q) == ParseDigits(q.text, 1, 0)
PositiveNumeral(q) == PlainNumeral(q) /\ NumeralValue(q) > 0

\* The number of stored records created after record i.
NewerCount(store, i) == Cardinality({j \in DOMAIN store : store[j] > store[i]})

\* C16 (as claimed): for a store of total records and a page and a limit
\* given as positive numbers, List answers with the records at positions
\* (page-1)*limit+1 .. min(page*limit, total) of the newest-first order,
\* pagination.total = total and pagination.pages = ceil(total/limit).
C16_ListReturnsRequestedPage ==
  (/\ call.fn = "list"
   /\ call.pc = "done"
   /\ PositiveNumeral(call.pageParam)
   /\ PositiveNumeral(call.limitParam))
    => LET page == NumeralValue(call.pageParam)
           limit == NumeralValue(call.limitParam)
           total == Len(call.store)
           first == (page - 1) * limit + 1
           last == IF page * limit < total THEN page * limit ELSE total
           count == IF last >= first THEN last - first + 1 ELSE 0
       IN  /\ call.res.status = 200
           /\ Len(call.res.data) = count
           /\ \A k \in 1 .. count :
                NewerCount(call.store, call.res.data[k]) = first + k - 2
           /\ call.res.pagination
           /\ call.res.total = total
           /\ call.res.pages * limit >= total
           /\ (call.res.pages - 1) * limit < total

\* A parameter for which the default is claimed: absent, without any digit,
\* zero, or a negative numeral.
NegativeNumeral(q) ==
  /\ q.present
  /\ Len(q.text) > 1
  /\ q.text[1] = "-"
  /\ \A i \in 2 .. Len(q.text) : q.text[i] \in DigitChars
DefaultClaimed(q) ==
  \/ ~q.present
  \/ \A i \in 1 .. Len(q.text) : q.text[i] \notin DigitChars
  \/ PlainNumeral(q) /\ NumeralValue(q) = 0
  \/ NegativeNumeral(q)

\* C17 (as claimed): List uses page 1 for an absent or invalid page
\* parameter and limit 10 for an absent or invalid limit parameter, so the
\* skip offset is never negative, the limit is positive, and every List is
\* answered 200.  (routes/register.js reads no parameter; only its answer
\* is constrained.)
C17_ListDefaultsInvalidParams ==
  (call.fn = "list" /\ call.pc = "done") =>
    /\ call.res.status = 200
    /\ rev # "gridfs" =>
         /\ DefaultClaimed(call.pageParam) => call.page = 1
         /\ DefaultClaimed(call.limitParam) => call.limit = 10
         /\ call.skip >= 0
         /\ call.limit > 0

\* C18 (as claimed): the stored declaration flag is true exactly when the
\* submitted value is one of "true", "on", true, 1, "1", in every Submit
\* handler.
C18_DeclarationTrueForLiteralSet ==
  (call.fn = "declaration" /\ call.pc = "done") =>
    (call.flag <=> call.value \in
       {"string:true", "string:on", "boolean:true", "number:1", "string:1"})

(***************************************************************************)
(* C19: every uploadWithTimeout call makes exactly one resolve / reject    *)
(* call: the first of timer expiry, callback and synchronous throw decides *)
(* the promise, every later event leaves it alone, the timer is cleared    *)
(* when the callback or the throw comes first, and a call that has not     *)
(* settled yet still has its timer armed; uploadBoth has called next       *)
(* exactly once when it is through, and never before.                      *)
(***************************************************************************)
UploadSettledOnce(u) ==
  /\ u.settles <= 1
  /\ (u.settles = 1) = (u.promise # "pending")
  /\ (u.settles = 1) = u.uploadFinished
  /\ (u.started /\ u.settles = 0) => u.timer = "armed"
  /\ u.by \in {"callback", "throw"} => u.timer = "cleared"
  /\ u.by = "timer" => u.timer = "fired"

NextCalledOnce(b) ==
  /\ b.nextCalls <= 1
  /\ (b.pc = "done") = (b.nextCalls = 1)
  /\ b.pc = "done" => b.nextErr = (\E s \in Slots : b.up[s].promise = "rejected")
  /\ b.pc # "done" => ~b.nextErr

LaterEventsIgnored ==
  call.fn = "uploadBoth" =>
    \A q \in UploadReqs, s \in Slots :
      call.r[q].up[s].promise # "pending" =>
        /\ call'.r[q].up[s].promise = call.r[q].up[s].promise
        /\ call'.r[q].up[s].by = call.r[q].up[s].by
        /\ call'.r[q].up[s].settles = call.r[q].up[s].settles
        /\ call'.r[q].nextCalls >= call.r[q].nextCalls

C19_SettlesOnceNextOnce ==
  /\ [](call.fn = "uploadBoth" =>
         \A q \in UploadReqs :
           /\ NextCalledOnce(call.r[q])
           /\ \A s \in Slots : UploadSettledOnce(call.r[q].up[s]))
  /\ [][LaterEventsIgnored]_vars

\* One request timed out on its receipt and got the callback afterwards,
\* another went through both uploads and called next().
C19_Witness ==
  /\ call.fn = "uploadBoth"
  /\ \E q1, q2 \in UploadReqs :
       /\ call.r[q1].up["receipt"].by = "timer"
       /\ call.r[q1].up["receipt"].cb = "called"
       /\ call.r[q1].pc = "done" /\ call.r[q1].nextErr
       /\ call.r[q2].pc = "done" /\ ~call.r[q2].nextErr
       /\ \A s \in Slots : call.r[q2].up[s].by = "callback"

(***************************************************************************)
(* C20: in the split revision, with the connection open, every file that   *)
(* uploadBoth accepted is in its slot's bucket (receipts / abstracts) and  *)
(* the handler is handed its store-assigned id.                            *)
(***************************************************************************)
SplitUploadStored(c) ==
  (rev = "split" /\ dbOpen /\ req[c].pc = "uploadBoth" /\ req'[c].pc # "uploadBoth"
     /\ req'[c].err \notin UploadErrorKinds)
    => \A s \in req[c].files :
         /\ req'[c].fid[s] # Undefined
         /\ \E b \in blobs' : b.id = req'[c].fid[s] /\ b.bucket = BucketOf("split", s)

C20_SplitUploadsCarryStoreId == [][\A c \in Reqs : SplitUploadStored(c)]_vars
====
